---- MODULE Spec2Model ----
(***************************************************************************)
(* A model of the HTTP server of c-server: launch (the serving loop),      *)
(* request_handler (router, static responder, proxy responder) and         *)
(* connect_to_backend, as written in HTTPServer.c.                         *)
(*                                                                         *)
(* Strings are sequences of one-character strings, so that strtok, strstr, *)
(* strncat, snprintf and the pointer arithmetic on them are computed on    *)
(* characters.  A buffer is a sequence of exactly its capacity; a C string *)
(* read from it ends at the first NUL.                                     *)
(***************************************************************************)
EXTENDS Integers, Sequences, FiniteSets, TLC

\* Capacity of every fixed buffer of the server (server.h), scaled down.
MAX_BUFFER_SIZE == 80
\* The serving loop is followed for this many parsed requests.
MaxRequests == 2
\* <limits.h>
PATH_MAX == 4096

NUL == "NUL"
CR == "CR"
LF == "LF"
SP == " "
SLASH == "/"
CRLF == <<CR, LF>>
CRLFCRLF == <<CR, LF, CR, LF>>

Min(a, b) == IF a < b THEN a ELSE b
Rep(c, n) == [i \in 1..n |-> c]
Take(s, n) == SubSeq(s, 1, Min(n, Len(s)))
Drop(s, n) == SubSeq(s, n + 1, Len(s))

\* Index of the first c in s, 0 when there is none.
IndexOf(s, c) ==
    IF \E i \in 1..Len(s) : s[i] = c
    THEN CHOOSE i \in 1..Len(s) : s[i] = c /\ \A j \in 1..(i - 1) : s[j] # c
    ELSE 0

\* A region of memory holds a terminated string when a NUL is in it.
Terminated(mem) == IndexOf(mem, NUL) # 0
\* The C string that starts at the beginning of mem.
CStr(mem) == IF Terminated(mem) THEN SubSeq(mem, 1, IndexOf(mem, NUL) - 1) ELSE mem

\* What lies behind a buffer on the stack when a string read or a byte
\* read runs past its end: more bytes that are not the caller's.
BEYOND == <<"?", "?", "?", "?", "?", "?", "?", "?">>

\* strstr(haystack, needle): index of the first occurrence, 0 for NULL.
strstr(h, n) ==
    LET hit(i) == SubSeq(h, i, i + Len(n) - 1) = n
        last == Len(h) - Len(n) + 1
    IN  IF \E i \in 1..last : hit(i)
        THEN CHOOSE i \in 1..last : hit(i) /\ \A j \in 1..(i - 1) : ~hit(j)
        ELSE 0

\* strtok(s, "/"), first call: leading delimiters are skipped, the token
\* runs to the next delimiter.  <<>> stands for NULL (a token is never empty).
strtok(s) ==
    LET start == IF \E i \in 1..Len(s) : s[i] # SLASH
                 THEN CHOOSE i \in 1..Len(s) : s[i] # SLASH /\ \A j \in 1..(i - 1) : s[j] = SLASH
                 ELSE 0
        rest == IF start = 0 THEN <<>> ELSE Drop(s, start - 1)
        stop == IndexOf(rest, SLASH)
    IN  IF stop = 0 THEN rest ELSE Take(rest, stop - 1)

Digit(d) == <<"0", "1", "2", "3", "4", "5", "6", "7", "8", "9">>[d + 1]
\* %zu
RECURSIVE Dec(_)
Dec(n) == IF n < 10 THEN <<Digit(n)>> ELSE Dec(n \div 10) \o <<Digit(n % 10)>>

\* snprintf(buf, size, ...) with the formatted text given: the return value
\* is the length of the whole text, the buffer receives what fits with its
\* terminator.  The return value is never negative for these formats.
snprintf(size, text) == [ret |-> Len(text), str |-> Take(text, size - 1)]

S_static == <<"s", "t", "a", "t", "i", "c">>
S_api == <<"a", "p", "i">>
HTTP11 == <<" ", "H", "T", "T", "P", "/", "1", ".", "1", CR, LF>>
HOST_HDR == <<"H", "o", "s", "t", ":", " ", "l", "o", "c", "a", "l", "h", "o", "s", "t", CR, LF>>
CLEN_HDR == <<"C", "o", "n", "t", "e", "n", "t", "-", "L", "e", "n", "g", "t", "h", ":", " ">>
CONN_HDR == <<"C", "o", "n", "n", "e", "c", "t", "i", "o", "n", ":", " ", "c", "l", "o", "s", "e", CR, LF>>

(***************************************************************************)
(* The world around one call of request_handler: the files under the       *)
(* static root, the prior contents of the handler's stack buffer, whether  *)
(* open succeeds, and how the backend behaves.                             *)
(***************************************************************************)
\* realpath(BASE_DIR, NULL)
BASE_DIR_real == <<"/", "w">>
F_a == <<"/", "w", "/", "s", "t", "a", "t", "i", "c", "/", "a">>
F_b == <<"/", "w", "/", "s", "t", "a", "t", "i", "c", "/", "b">>
F_n == <<"/", "w", "/", "s", "t", "a", "t", "i", "c", "/", "n">>
F_big == <<"/", "w", "/", "s", "t", "a", "t", "i", "c", "/", "b", "i", "g">>

\* Path resolution by the kernel: a run of slashes is one slash.
RECURSIVE Normalize(_)
Normalize(p) ==
    IF Len(p) < 2 THEN p
    ELSE IF p[1] = SLASH /\ p[2] = SLASH THEN Normalize(Tail(p))
    ELSE <<p[1]>> \o Normalize(Tail(p))

\* a: readable, shorter than the buffer.  n: readable, holds a NUL byte.
\* big: readable, longer than the buffer.  b: exists, not readable.
\* Every other path does not exist.
FileMode(filepath) ==
    LET f == Normalize(filepath)
    IN  IF f \in {F_a, F_n, F_big} THEN "readable"
        ELSE IF f = F_b THEN "unreadable"
        ELSE "missing"

FileContent(filepath) ==
    LET f == Normalize(filepath)
    IN  IF f = F_a THEN <<"h", "i">>
        ELSE IF f = F_n THEN <<"h", NUL, "i">>
        ELSE IF f = F_big THEN Rep("B", MAX_BUFFER_SIZE + 2)
        ELSE <<>>

\* Indeterminate contents of a stack buffer before it is written.
Zeros == Rep(NUL, MAX_BUFFER_SIZE)
Stale == Rep("g", MAX_BUFFER_SIZE - 1) \o <<NUL>>
StackGarbage == {Zeros, Stale}

BackendStates == {"resolve_fail", "socket_fail", "connect_fail", "up"}

(***************************************************************************)
(* System calls, by their results.                                         *)
(***************************************************************************)
access_always_ok(filepath) == 0

\* access(filepath, R_OK)
access(filepath) == IF FileMode(filepath) = "readable" THEN 0 ELSE -1

\* open(filepath, O_RDONLY): a descriptor, or -1
open(filepath, w) == IF FileMode(filepath) = "readable" /\ w.open_ok THEN 3 ELSE -1

\* read(fd, buffer, count) into a buffer with the given prior contents
read(prior, data, count) ==
    LET n == Min(Len(data), count)
    IN  [n |-> n, buffer |-> Take(data, n) \o Drop(prior, n)]

(***************************************************************************)
(* HTTPResponse, and what one call of request_handler did.                 *)
(***************************************************************************)
\* response_builder(status, text, body): the body is copied as a C string.
response_builder(code, text, body) == [status |-> code, text |-> text, body |-> body]

\* The system calls one call of request_handler made, and the highest index
\* (from 0, -1 for none) it wrote in proxy_request (req_top) and in
\* proxy_response (resp_top), and the byte count it passed to send.
NoIO ==
    [accessed |-> FALSE, fds_opened |-> 0, fds_closed |-> 0, connects |-> 0,
     socks_opened |-> 0, socks_closed |-> 0, sent |-> <<>>, recvs |-> 0,
     req_top |-> -1, send_len |-> 0, resp_top |-> -1]

Returns(response, io, proxy_request) ==
    [crashed |-> FALSE, response |-> <<response>>, io |-> io, proxy_request |-> proxy_request]
\* The process is killed inside the call: no response exists.
Crashes(io, proxy_request) ==
    [crashed |-> TRUE, response |-> <<>>, io |-> io, proxy_request |-> proxy_request]

NotFound == response_builder(404, "Not Found", <<"<h1>404 Not Found</h1>">>)

SnprintfError == response_builder(404, "Not Found", <<"<h1>snprintf() error</h1>">>)
Forbidden == response_builder(403, "Forbidden", <<"<h1>403 Forbidden</h1>">>)
ProxySnprintfError ==
    response_builder(500, "Internal Server Error", <<"<h1>proxy snprintf() error</h1>">>)
BackendUnavailable_503 ==
    response_builder(503, "Service Unavailable", <<"<h1>502 Bad Gateway: Backend Unavailable</h1>">>)
BackendUnavailable ==
    response_builder(502, "Bad Gateway", <<"<h1>502 Bad Gateway: Backend Unavailable</h1>">>)
BackendReadFailed ==
    response_builder(502, "Bad Gateway", <<"<h1>502 Bad Gateway: Failed to Read from Backend</h1>">>)

(***************************************************************************)
(* The static responder: the branch strcmp(token, "static") == 0.          *)
(* ub is the outcome the build produces where the code's behaviour is      *)
(* undefined: "crash", or "benign" (the stray bytes are read or written    *)
(* and execution goes on).                                                 *)
(***************************************************************************)
\* open succeeded, but close(fd) is missing
StaticSuccessIO_no_close == [NoIO EXCEPT !.accessed = TRUE, !.fds_opened = 1]

\* access, open, read, close(fd) on the path that answers 200
StaticSuccessIO == [NoIO EXCEPT !.accessed = TRUE, !.fds_opened = 1, !.fds_closed = 1]

StaticResponder(req, w, ub) ==
    LET fmt == snprintf(PATH_MAX, BASE_DIR_real \o <<SLASH>> \o req.path)
        filepath == fmt.str
        fd == open(filepath, w)
        \* char buffer[MAX_BUFFER_SIZE]; read(fd, buffer, sizeof(buffer));
        got == read(w.garbage, FileContent(filepath), MAX_BUFFER_SIZE)
        \* response_builder reads buffer as a string: to the first NUL,
        \* wherever that is.
        body == IF Terminated(got.buffer) THEN CStr(got.buffer) ELSE got.buffer \o BEYOND
        checked == [NoIO EXCEPT !.accessed = TRUE]
    IN  IF fmt.ret < 0 THEN Returns(SnprintfError, NoIO, <<>>)
        ELSE IF access(filepath) # 0 THEN Returns(Forbidden, checked, <<>>)
        ELSE IF fd = -1 THEN Returns(NotFound, checked, <<>>)
        ELSE IF ~Terminated(got.buffer) /\ ub = "crash"
             THEN Crashes([checked EXCEPT !.fds_opened = 1], <<>>)
        ELSE Returns(response_builder(200, "OK", body), StaticSuccessIO, <<>>)

(***************************************************************************)
(* connect_to_backend("localhost", "8000"): the descriptor returned and    *)
(* the sockets it created.                                                 *)
(***************************************************************************)
connect_to_backend(w) ==
    IF w.backend = "resolve_fail" THEN [fd |-> -1, socks_opened |-> 0]
    ELSE IF w.backend = "socket_fail" THEN [fd |-> -1, socks_opened |-> 0]
    ELSE IF w.backend = "connect_fail" THEN [fd |-> -1, socks_opened |-> 1]
    ELSE [fd |-> 4, socks_opened |-> 1]

(***************************************************************************)
(* The proxy responder: the branch strcmp(token, "api") == 0.              *)
(***************************************************************************)
ProxyHeader(method, api_path, body_length) ==
    method \o <<SP>> \o api_path \o HTTP11 \o HOST_HDR \o CLEN_HDR \o Dec(body_length)
        \o CRLF \o CONN_HDR \o CRLF

\* request_ptr->path + strlen("/api"); "/" when nothing is left
ApiPath(path) ==
    LET api_path == Drop(path, Len(<<SLASH>> \o S_api))
    IN  IF api_path = <<>> THEN <<SLASH>> ELSE api_path

\* The body found in the backend's reply: after the first "\r\n\r\n" of the
\* string in proxy_response, the whole string when there is none.
ReplyBody(proxy_response) ==
    LET sep == strstr(proxy_response, CRLFCRLF)
    IN  IF sep = 0 THEN proxy_response ELSE Drop(proxy_response, sep + 3)

ProxyResponder(req, w, ub) ==
    LET fmt == snprintf(MAX_BUFFER_SIZE, ProxyHeader(req.method, ApiPath(req.path), req.body_length))
        proxy_request_len == fmt.ret
        \* strncat(proxy_request, request_ptr->body, request_ptr->body_length)
        proxy_request == fmt.str \o Take(req.body, req.body_length)
        cat_overflow == Len(proxy_request) + 1 > MAX_BUFFER_SIZE
        conn == connect_to_backend(w)
        \* send(backend_fd, proxy_request, proxy_request_len, 0)
        \* proxy_request_len bytes from the start of proxy_request, those
        \* behind the buffer included when the count is larger than it
        sent == Take(proxy_request \o <<NUL>> \o Rep("?", proxy_request_len), proxy_request_len)
        \* recv(backend_fd, proxy_response, sizeof(proxy_response), 0)
        proxy_response_len == IF w.recv_ok THEN Min(Len(w.reply), MAX_BUFFER_SIZE) ELSE -1
        \* proxy_response[proxy_response_len] = '\0'
        term_overflow == proxy_response_len > MAX_BUFFER_SIZE - 1
        proxy_response == CStr(Take(w.reply, proxy_response_len) \o <<NUL>>)
        \* the terminator strncat writes is at index strlen(proxy_request)
        built == [NoIO EXCEPT !.req_top = Len(proxy_request)]
        failed == [built EXCEPT !.connects = 1, !.socks_opened = conn.socks_opened]
        talked == [failed EXCEPT !.sent = <<sent>>, !.send_len = proxy_request_len,
                                 !.recvs = 1]
        received == [talked EXCEPT !.resp_top = proxy_response_len]
    IN  IF proxy_request_len < 0 THEN Returns(ProxySnprintfError, NoIO, <<proxy_request>>)
        ELSE IF cat_overflow /\ ub = "crash" THEN Crashes(built, <<proxy_request>>)
        ELSE IF conn.fd = -1 THEN Returns(BackendUnavailable, failed, <<proxy_request>>)
        ELSE IF proxy_response_len < 0 THEN Returns(BackendReadFailed, talked, <<proxy_request>>)
        ELSE IF term_overflow /\ ub = "crash" THEN Crashes(received, <<proxy_request>>)
        ELSE Returns(response_builder(200, "OK", ReplyBody(proxy_response)),
                     [received EXCEPT !.socks_closed = 1], <<proxy_request>>)

(***************************************************************************)
(* request_handler(request_ptr).  request is <<>> for a NULL pointer and   *)
(* <<r>> for a pointer to r: request_ptr->path is read before anything     *)
(* else, which kills the process when the pointer is NULL.                 *)
(***************************************************************************)
request_handler(request, w, ub) ==
    IF request = <<>> THEN Crashes(NoIO, <<>>)
    ELSE LET req == request[1]
             token == strtok(req.path)
         IN  IF token # <<>>
             THEN IF token = S_static THEN StaticResponder(req, w, ub)
                  ELSE IF token = S_api THEN ProxyResponder(req, w, ub)
                  ELSE Returns(NotFound, NoIO, <<>>)
             ELSE Returns(NotFound, NoIO, <<>>)

(***************************************************************************)
(* parse_http_request(buffer): method and path from the request line, the  *)
(* body after the first blank line; NULL (<<>>) when the request line does *)
(* not split into a method and a path.                                     *)
(***************************************************************************)
parse_http_request(text) ==
    LET eol == strstr(text, CRLF)
        line == IF eol = 0 THEN text ELSE Take(text, eol - 1)
        sp1 == IndexOf(line, SP)
        rest == Drop(line, sp1)
        sp2 == IndexOf(rest, SP)
        method == Take(line, sp1 - 1)
        path == IF sp2 = 0 THEN rest ELSE Take(rest, sp2 - 1)
        sep == strstr(text, CRLFCRLF)
        body == IF sep = 0 THEN <<>> ELSE Drop(text, sep + 3)
    IN  IF sp1 = 0 \/ method = <<>> \/ path = <<>> THEN <<>>
        ELSE <<[method |-> method, path |-> path, body |-> body, body_length |-> Len(body)]>>

\* httpresponse_serialize(response, NULL): status line, blank line, body.
httpresponse_serialize(r) ==
    [version |-> "HTTP/1.1", status |-> r.status, text |-> r.text, body |-> r.body]

(***************************************************************************)
(* What clients send, and the world each request meets.                    *)
(***************************************************************************)
GET == <<"G", "E", "T">>
POST == <<"P", "O", "S", "T">>
Req(method, path, body) == method \o <<SP>> \o path \o HTTP11 \o CRLF \o body

StaticPaths ==
    { <<"/", "s", "t", "a", "t", "i", "c", "/", "a">>,
      <<"/", "s", "t", "a", "t", "i", "c", "/", "b">>,
      <<"/", "s", "t", "a", "t", "i", "c", "/", "c">>,
      <<"/", "s", "t", "a", "t", "i", "c", "/", "n">>,
      <<"/", "s", "t", "a", "t", "i", "c", "/", "b", "i", "g">>,
      <<"/", "/", "s", "t", "a", "t", "i", "c", "/", "a">> }
OtherPaths ==
    { <<"/">>, <<"/", "/">>, <<"/", "o", "t", "h", "e", "r">>,
      <<"/", "a", "p", "i", "x">>, <<"/", "s", "t", "a", "t", "i", "c", "s", "/", "a">> }
P_api == <<"/", "a", "p", "i">>
P_api_x == <<"/", "a", "p", "i", "/", "x">>
P_sapi_x == <<"/", "/", "a", "p", "i", "/", "x">>

\* A body the outbound buffer has room for, and one it has not, though the
\* inbound request fits the read buffer.
SmallBody == <<"a", "b">>
BigBody == Rep("b", MAX_BUFFER_SIZE - 40)
\* A path that fits the read buffer while the outbound header alone does
\* not fit proxy_request.
P_api_long == P_api \o <<SLASH>> \o Rep("p", MAX_BUFFER_SIZE - 30)
ApiRequests ==
    { Req(GET, P_api, <<>>), Req(POST, P_api_x, SmallBody), Req(POST, P_api_x, BigBody),
      Req(GET, P_sapi_x, <<>>), Req(GET, P_api_long, <<>>) }

\* A request line with no space in it.
Malformed == <<"B", "O", "G", "U", "S", CR, LF, CR, LF>>

ST201 == <<"H", "T", "T", "P", "/", "1", ".", "1", " ", "2", "0", "1", " ", "C", "r", "e", "a", "t", "e", "d", CR, LF>>
Replies ==
    { <<>>,
      <<"r", "a", "w">>,
      ST201 \o CRLF \o <<"i", "d">>,
      ST201 \o CRLF \o <<"a">> \o CRLFCRLF \o <<"b">>,
      ST201 \o CRLF \o <<"a", NUL, "b">>,
      <<"x", NUL>> \o CRLFCRLF \o <<"b">>,
      Rep("r", MAX_BUFFER_SIZE) }

DefaultWorld ==
    [backend |-> "up", recv_ok |-> TRUE, reply |-> <<>>, garbage |-> Zeros, open_ok |-> TRUE]
StaticWorlds ==
    { [DefaultWorld EXCEPT !.garbage = g] : g \in StackGarbage }
        \cup { [DefaultWorld EXCEPT !.open_ok = FALSE] }
ApiWorlds ==
    { [DefaultWorld EXCEPT !.backend = b] : b \in BackendStates }
        \cup { [DefaultWorld EXCEPT !.recv_ok = FALSE] }
        \cup { [DefaultWorld EXCEPT !.reply = y] : y \in Replies }
Scenarios ==
    { [inbound |-> Req(GET, p, <<>>), world |-> w] : p \in StaticPaths, w \in StaticWorlds }
        \cup { [inbound |-> i, world |-> w] : i \in ApiRequests, w \in ApiWorlds }
        \cup { [inbound |-> Req(GET, p, <<>>), world |-> DefaultWorld] : p \in OtherPaths }
        \cup { [inbound |-> i, world |-> DefaultWorld] : i \in {Malformed, <<>>} }

(***************************************************************************)
(* launch(self): the state of the serving loop.                            *)
(***************************************************************************)
VARIABLES
    pc,             \* where launch is
    server_socket,  \* self->server->socket: "created", "bound" or "listening"
    result,         \* the value launch returned, "NONE" while it has not
    accepts,        \* calls of accept so far
    new_socket,     \* "none", "open" or "closed": the accepted connection
    open_conns,     \* accepted connections not yet closed
    inbound,        \* the bytes the client of new_socket sends
    world,          \* the files and the backend this request meets
    buffer,         \* char buffer[MAX_BUFFER_SIZE], the same stack slot in every iteration
    request,        \* httprequest_ptr: <<>> is NULL
    response,       \* httpresponse_ptr: <<>> before the handler has returned
    response_str,   \* char *response: <<>> before serialization and after free
    written,        \* what has been written to new_socket
    handled,        \* what the last call of request_handler did, <<>> before it
    live_requests,  \* HTTPRequest objects allocated and not released
    live_responses, \* HTTPResponse objects allocated and not released
    open_socks,     \* backend sockets open
    open_fds        \* file descriptors of static files open

vars ==
    <<pc, server_socket, result, accepts, new_socket, open_conns, inbound, world, buffer, request, response,
      response_str, written, handled, live_requests, live_responses, open_socks, open_fds>>

Init ==
    /\ pc = "bind"
    /\ server_socket = "created"
    /\ result = "NONE"
    /\ accepts = 0
    /\ new_socket = "none"
    /\ open_conns = 0
    /\ inbound = <<>>
    /\ world = DefaultWorld
    /\ buffer \in StackGarbage
    /\ request = <<>>
    /\ response = <<>>
    /\ response_str = <<>>
    /\ written = <<>>
    /\ handled = <<>>
    /\ live_requests = 0
    /\ live_responses = 0
    /\ open_socks = 0
    /\ open_fds = 0

(***************************************************************************)
(* launch(self), one action per statement.                                 *)
(***************************************************************************)
Bind ==
    /\ pc = "bind"
    /\ \E ok \in BOOLEAN :
          IF ok THEN pc' = "listen" /\ server_socket' = "bound" /\ result' = result
          ELSE pc' = "returned" /\ server_socket' = server_socket
                  /\ result' = "SOCKET_BIND_ERROR"
    /\ UNCHANGED <<open_conns, accepts, new_socket, inbound, world, buffer, request, response,
                   response_str, written, handled, live_requests, live_responses,
                   open_socks, open_fds>>

\* listen's return value ignored
Listen_falls_through ==
    /\ pc = "listen"
    /\ pc' = "accept"
    /\ \E ok \in BOOLEAN : server_socket' = IF ok THEN "listening" ELSE server_socket
    /\ UNCHANGED <<open_conns, result, accepts, new_socket, inbound, world, buffer, request, response,
                   response_str, written, handled, live_requests, live_responses,
                   open_socks, open_fds>>

Listen ==
    /\ pc = "listen"
    /\ \E ok \in BOOLEAN :
          IF ok THEN pc' = "accept" /\ server_socket' = "listening" /\ result' = result
          ELSE pc' = "returned" /\ server_socket' = server_socket
                  /\ result' = "SOCKET_LISTEN_ERROR"
    /\ UNCHANGED <<open_conns, accepts, new_socket, inbound, world, buffer, request, response,
                   response_str, written, handled, live_requests, live_responses,
                   open_socks, open_fds>>

\* accept: a client connects; the locals of the loop body are fresh.
Accept ==
    /\ pc = "accept"
    /\ live_requests < MaxRequests
    /\ \E s \in Scenarios : inbound' = s.inbound /\ world' = s.world
    /\ accepts' = accepts + 1
    /\ new_socket' = "open"
    /\ open_conns' = open_conns + 1
    /\ request' = <<>>
    /\ response' = <<>>
    /\ response_str' = <<>>
    /\ written' = <<>>
    /\ handled' = <<>>
    /\ pc' = "read"
    /\ UNCHANGED <<server_socket, result, buffer, live_requests, live_responses, open_socks, open_fds>>

\* read(new_socket, buffer, MAX_BUFFER_SIZE): the return value is not used.
Read ==
    /\ pc = "read"
    /\ \E ok \in BOOLEAN :
          buffer' = IF ok THEN read(buffer, inbound, MAX_BUFFER_SIZE).buffer ELSE buffer
    /\ pc' = "parse"
    /\ UNCHANGED <<open_conns, server_socket, result, accepts, new_socket, inbound, world, request, response,
                   response_str, written, handled, live_requests, live_responses,
                   open_socks, open_fds>>

\* parse_http_request(buffer): buffer is read as a string.
Parse ==
    /\ pc = "parse"
    /\ \E ub \in {"benign", "crash"} :
          IF ~Terminated(buffer) /\ ub = "crash"
          THEN /\ pc' = "crashed"
               /\ UNCHANGED <<request, live_requests>>
          ELSE LET text == IF Terminated(buffer) THEN CStr(buffer) ELSE buffer \o BEYOND
               IN  /\ request' = parse_http_request(text)
                   /\ live_requests' = live_requests + Len(request')
                   /\ pc' = "handle"
    /\ UNCHANGED <<open_conns, server_socket, result, accepts, new_socket, inbound, world, buffer, response,
                   response_str, written, handled, live_responses, open_socks, open_fds>>

\* request_handler(httprequest_ptr)
Handle ==
    /\ pc = "handle"
    /\ \E ub \in {"benign", "crash"} :
          LET r == request_handler(request, world, ub)
          IN  /\ handled' = <<r>>
              /\ response' = r.response
              /\ live_responses' = live_responses + Len(r.response)
              /\ open_socks' = open_socks + r.io.socks_opened - r.io.socks_closed
              /\ open_fds' = open_fds + r.io.fds_opened - r.io.fds_closed
              /\ pc' = IF r.crashed THEN "crashed" ELSE "serialize"
    /\ UNCHANGED <<open_conns, server_socket, result, accepts, new_socket, inbound, world, buffer, request,
                   response_str, written, live_requests>>

\* httpresponse_serialize(httpresponse_ptr, NULL)
Serialize ==
    /\ pc = "serialize"
    /\ response_str' = <<httpresponse_serialize(response[1])>>
    /\ pc' = "free_response"
    /\ UNCHANGED <<open_conns, server_socket, result, accepts, new_socket, inbound, world, buffer, request, response,
                   written, handled, live_requests, live_responses, open_socks, open_fds>>

\* the call of httpresponse_free is missing
FreeResponse_leaks ==
    /\ pc = "free_response"
    /\ pc' = "write"
    /\ UNCHANGED <<open_conns, server_socket, result, accepts, new_socket, inbound, world, buffer, request, response,
                   response_str, written, handled, live_requests, live_responses, open_socks, open_fds>>

\* httpresponse_free(httpresponse_ptr)
FreeResponse ==
    /\ pc = "free_response"
    /\ live_responses' = live_responses - 1
    /\ pc' = "write"
    /\ UNCHANGED <<open_conns, server_socket, result, accepts, new_socket, inbound, world, buffer, request, response,
                   response_str, written, handled, live_requests, open_socks, open_fds>>

\* write(new_socket, response, strlen(response))
Write ==
    /\ pc = "write"
    /\ written' = written \o response_str
    /\ pc' = "free_str"
    /\ UNCHANGED <<open_conns, server_socket, result, accepts, new_socket, inbound, world, buffer, request, response,
                   response_str, handled, live_requests, live_responses, open_socks, open_fds>>

\* free(response)
FreeStr ==
    /\ pc = "free_str"
    /\ response_str' = <<>>
    /\ pc' = "close"
    /\ UNCHANGED <<open_conns, server_socket, result, accepts, new_socket, inbound, world, buffer, request, response,
                   written, handled, live_requests, live_responses, open_socks, open_fds>>

\* the loop goes round without close(new_socket)
Close_leaks_socket ==
    /\ pc = "close"
    /\ pc' = "accept"
    /\ UNCHANGED <<server_socket, result, accepts, new_socket, open_conns, inbound, world, buffer, request,
                   response, response_str, written, handled, live_requests, live_responses,
                   open_socks, open_fds>>

\* close(new_socket); the loop goes round.
Close ==
    /\ pc = "close"
    /\ new_socket' = "closed"
    /\ open_conns' = open_conns - 1
    /\ pc' = "accept"
    /\ UNCHANGED <<server_socket, result, accepts, inbound, world, buffer, request, response,
                   response_str, written, handled, live_requests, live_responses,
                   open_socks, open_fds>>

Next ==
    \/ Bind
    \/ Listen
    \/ Accept
    \/ Read
    \/ Parse
    \/ Handle
    \/ Serialize
    \/ FreeResponse
    \/ Write
    \/ FreeStr
    \/ Close

Spec == Init /\ [][Next]_vars

\* Every statement of the loop returns once the peer has acted.
FairSpec == Spec /\ WF_vars(Next)

(***************************************************************************)
(* The properties.  They speak about a call of request_handler that has    *)
(* been made in the current iteration, through what launch holds.          *)
(***************************************************************************)
Called == handled # <<>> /\ request # <<>>
Path == request[1].path
Did == handled[1]
Answer == Did.response[1]

\* The portion of a path between its leading '/' and the next '/'.
FirstSegment(path) ==
    LET rest == Tail(path)
        stop == IndexOf(rest, SLASH)
    IN  IF stop = 0 THEN rest ELSE Take(rest, stop - 1)

HasPrefix(s, prefix) == Len(s) >= Len(prefix) /\ Take(s, Len(prefix)) = prefix
STATIC_PREFIX == <<SLASH>> \o S_static \o <<SLASH>>
\* The path is /static/<name>; its file is <root>/static/<name>.
IsStaticRequest == Called /\ HasPrefix(Path, STATIC_PREFIX) /\ Len(Path) > Len(STATIC_PREFIX)
StaticFile == BASE_DIR_real \o Path

\* C1: whenever the first path segment is neither "static" nor "api" (the
\* path "/" and an empty first segment included), request_handler returns
\* 404 "Not Found" with the body "<h1>404 Not Found</h1>" and has done no
\* file and no backend I/O.
C1_OtherSegmentIs404 ==
    (Called /\ Head(Path) = SLASH /\ FirstSegment(Path) \notin {S_static, S_api})
        => /\ ~Did.crashed
           /\ Answer.status = 404
           /\ Answer.text = "Not Found"
           /\ Answer.body = <<"<h1>404 Not Found</h1>">>
           /\ ~Did.io.accessed
           /\ Did.io.fds_opened = 0
           /\ Did.io.connects = 0
           /\ Did.io.sent = <<>>
           /\ Did.io.recvs = 0

\* C2: a request for /static/<name> whose file does not exist is answered
\* with status 404.
C2_MissingFileIs404 ==
    (IsStaticRequest /\ FileMode(StaticFile) = "missing")
        => ~Did.crashed /\ Answer.status = 404

\* C3: a request for /static/<name> whose file exists and is not readable
\* is answered with status 403, and no file descriptor has been opened.
C3_UnreadableFileIs403 ==
    (IsStaticRequest /\ FileMode(StaticFile) = "unreadable")
        => ~Did.crashed /\ Answer.status = 403 /\ Did.io.fds_opened = 0

C3_Witness ==
    /\ IsStaticRequest
    /\ FileMode(StaticFile) = "unreadable"
    /\ pc = "serialize"
    /\ Answer.status = 403

\* The string parsed is exactly what the client sent: no byte of the read
\* buffer's earlier contents follows it.
ExactRead == Terminated(buffer) /\ CStr(buffer) = inbound
\* The outbound request, terminator included, fits proxy_request.
OutboundFits == Did.proxy_request # <<>> /\ Len(Did.proxy_request[1]) < MAX_BUFFER_SIZE

\* C4: a request for /static/<name> whose file exists, is readable and is
\* opened is answered with status 200 and a body that is the file's
\* contents, cut at MAX_BUFFER_SIZE bytes, and nothing else.
C4_BodyIsFileContents ==
    (IsStaticRequest /\ FileMode(StaticFile) = "readable" /\ world.open_ok)
        => /\ ~Did.crashed
           /\ Answer.status = 200
           /\ Answer.body = Take(FileContent(StaticFile), MAX_BUFFER_SIZE)

\* C5: when the first path segment is "api" and resolution, socket creation
\* or connect fails, the answer is 502 with the "Backend Unavailable" body,
\* and nothing was sent to or read from a backend.  (Stated for requests
\* parsed from exactly the bytes the client sent.)
C5_BackendDownIs502 ==
    (Called /\ ExactRead /\ Head(Path) = SLASH /\ FirstSegment(Path) = S_api
            /\ world.backend # "up")
        => /\ ~Did.crashed
           /\ Answer.status = 502
           /\ Answer.body = <<"<h1>502 Bad Gateway: Backend Unavailable</h1>">>
           /\ Did.io.sent = <<>>
           /\ Did.io.recvs = 0

\* C6: every HTTPResponse that request_handler has built, and every one
\* written to a client, has a status among 200, 403, 404, 500, 502.
C6_StatusCodes ==
    /\ \A i \in 1..Len(response) : response[i].status \in {200, 403, 404, 500, 502}
    /\ \A i \in 1..Len(written) : written[i].status \in {200, 403, 404, 500, 502}

C6_Witness ==
    /\ Called
    /\ world.backend = "connect_fail"
    /\ Len(written) = 1
    /\ written[1].status = 502

\* The bytes of a backend reply that follow its first "\r\n\r\n", all of
\* them when it has none.
AfterSeparator(reply) ==
    LET sep == strstr(reply, CRLFCRLF)
    IN  IF sep = 0 THEN reply ELSE Drop(reply, sep + 3)

\* C7: when the first path segment is "api", the backend connection
\* succeeds and the read returns a byte count that is not negative, the
\* answer is 200 "OK" and its body is everything after the first
\* "\r\n\r\n" of the bytes received (all of them when there is none).
\* (Stated for outbound requests that fit their buffer and replies shorter
\* than the receive buffer.)
C7_ProxyBodyIsReplyBody ==
    (Called /\ Head(Path) = SLASH /\ FirstSegment(Path) = S_api
            /\ OutboundFits /\ Len(world.reply) < MAX_BUFFER_SIZE
            /\ world.backend = "up" /\ world.recv_ok)
        => /\ ~Did.crashed
           /\ Answer.status = 200
           /\ Answer.text = "OK"
           /\ Answer.body = AfterSeparator(Take(world.reply, MAX_BUFFER_SIZE))

\* The path of a request line: between its first and its second space.
RequestLinePath(text) ==
    LET rest == Drop(text, IndexOf(text, SP))
    IN  Take(rest, IndexOf(rest, SP) - 1)

\* C8: whenever the proxy responder has built its outbound request, the
\* path of the outbound request line starts with '/', and for an inbound
\* path "/api" followed by a remainder it is that remainder, "/" when the
\* remainder is empty.
C8_ForwardedPath ==
    (Called /\ Did.proxy_request # <<>>)
        => LET forwarded == RequestLinePath(Did.proxy_request[1])
               remainder == Drop(Path, Len(<<SLASH>> \o S_api))
           IN  /\ forwarded # <<>>
               /\ Head(forwarded) = SLASH
               /\ FirstSegment(Path) = S_api
               /\ forwarded = (IF remainder = <<>> THEN <<SLASH>> ELSE remainder)

\* C9: launch returns only from a failed bind, with SOCKET_BIND_ERROR, or
\* from a failed listen, with SOCKET_LISTEN_ERROR, and then accept has never
\* been called; accept is called only on a listening socket; once the
\* socket listens launch does not return, and after closing a connection
\* its next step is accept.
C9_LaunchReturnsOnlyOnStartupFailure ==
    [][ /\ (pc' = "returned"
              => /\ accepts' = 0
                 /\ \/ server_socket' = "created" /\ result' = "SOCKET_BIND_ERROR"
                    \/ server_socket' = "bound" /\ result' = "SOCKET_LISTEN_ERROR")
        /\ (pc' # "returned" => result' = "NONE")
        /\ (accepts' > 0 => server_socket' = "listening")
        /\ (server_socket = "listening" => pc' # "returned")
        /\ (pc = "close" => pc' = "accept") ]_vars

C9_Witness ==
    /\ pc = "returned"
    /\ server_socket = "bound"
    /\ result = "SOCKET_LISTEN_ERROR"
    /\ accepts = 0

\* A failure of one request: a request line that does not parse, a static
\* file that is missing or unreadable, a backend that cannot be reached or
\* whose reply cannot be read.
PerRequestFailure ==
    /\ handled # <<>>
    /\ \/ request = <<>>
       \/ IsStaticRequest /\ FileMode(StaticFile) # "readable"
       \/ /\ Called /\ OutboundFits
          /\ world.backend # "up" \/ ~world.recv_ok

\* C10: a failure of one request does not end the serving loop, and the
\* connection it came on is not closed before one response has been written
\* on it.  (Stated for requests parsed from exactly the bytes the client
\* sent.)
C10_FailuresAreAnswered ==
    (ExactRead /\ PerRequestFailure)
        => /\ pc # "crashed"
           /\ (new_socket = "closed" => Len(written) = 1)

\* The proxy responder has sent its outbound request to a backend.
Sent == Called /\ Did.io.sent # <<>>
\* The inbound body, as the proxy responder is given it.
InboundBody == Take(request[1].body, request[1].body_length)
\* Request line, Host, Content-Length and Connection headers, blank line.
OutboundHeader == ProxyHeader(request[1].method, ApiPath(Path), request[1].body_length)

\* C11: after a successful backend connect, the bytes of the one send call
\* are the request line, the Host, Content-Length (the inbound body length)
\* and Connection: close headers, a blank line and then every byte of the
\* inbound body; their number is the header length plus the body length.
\* (Stated for outbound requests that fit their buffer.)
C11_SentIsHeaderAndBody ==
    (Sent /\ ExactRead /\ OutboundFits)
        => /\ Len(Did.io.sent) = 1
           /\ Did.io.sent[1] = OutboundHeader \o InboundBody
           /\ Did.io.send_len = Len(OutboundHeader) + request[1].body_length

\* The outbound request, terminator included, needs more than proxy_request holds.
OutboundTooLarge ==
    Called /\ Did.proxy_request # <<>>
           /\ Len(OutboundHeader) + request[1].body_length + 1 > MAX_BUFFER_SIZE

\* C12: when the outbound request (request line, headers, body) does not fit
\* proxy_request, the answer is 500 and nothing is sent to the backend.
C12_TooLargeIs500 ==
    (OutboundTooLarge /\ ExactRead)
        => /\ ~Did.crashed
           /\ Answer.status = 500
           /\ Did.io.sent = <<>>

\* C13: when request_handler returns after connect_to_backend gave it a
\* socket, that socket has been closed exactly once, after a successful
\* receive and after a failed one.
C13_BackendSocketClosed ==
    (Called /\ ExactRead /\ OutboundFits /\ ~Did.crashed /\ Did.io.connects = 1
            /\ world.backend = "up")
        => Did.io.socks_closed = 1

\* C14: the HTTPResponse request_handler built is alive from its return to
\* the call of httpresponse_free and at no other time: launch releases it
\* once, only after it has been serialized, and none is left when the next
\* accept begins.
C14_ResponseReleasedOnce ==
    /\ live_responses = IF pc \in {"serialize", "free_response"} THEN 1 ELSE 0
    /\ pc = "free_response" => response_str # <<>>
    /\ pc \in {"write", "free_str", "close"} => response # <<>>

\* A second connection is being served; the first response is gone.
C14_Witness ==
    /\ pc = "write" /\ accepts = 2
    /\ response # <<>> /\ response_str # <<>> /\ live_responses = 0

\* C15: the HTTPRequest of an iteration is released once that iteration has
\* consumed it: at most one is alive, and none when the next accept begins.
C15_RequestReleased ==
    /\ live_requests <= 1
    /\ pc = "accept" => live_requests = 0

\* C16: the static responder opens at most one descriptor per request and
\* has closed it when it returns; on the 403, 404 and path-error returns
\* none was opened; no descriptor is open in the serving process between
\* calls, however many requests were served.
C16_StaticDescriptorsClosed ==
    /\ pc # "crashed" => open_fds = 0
    /\ (Called /\ ~Did.crashed)
          => /\ Did.io.fds_opened <= 1
             /\ Did.io.fds_closed = Did.io.fds_opened
             /\ Answer.status # 200 => Did.io.fds_opened = 0

\* A second static file has been served.
C16_Witness ==
    /\ accepts = 2 /\ Called /\ ~Did.crashed
    /\ IsStaticRequest /\ Answer.status = 200
    /\ Did.io.fds_opened = 1 /\ Did.io.fds_closed = 1 /\ open_fds = 0

\* C17: connections are served one after another: at most one accepted
\* connection is open at any time, and whenever launch is about to accept,
\* the connection before has been read and handled, has had one response
\* written to it and is closed.
C17_OneConnectionAtATime ==
    /\ open_conns <= 1
    /\ pc = "accept"
          => /\ open_conns = 0
             /\ accepts > 0
                   => /\ new_socket = "closed"
                      /\ handled # <<>>
                      /\ Len(written) = 1
                      /\ response_str = <<>>

\* Two connections have been served and closed.
C17_Witness ==
    /\ pc = "accept" /\ accepts = 2
    /\ new_socket = "closed" /\ open_conns = 0 /\ Len(written) = 1

\* C18: when connect_to_backend returns -1, no socket it created is open.
C18_FailedConnectLeavesNoSocket ==
    (Called /\ ExactRead /\ OutboundFits /\ ~Did.crashed
        /\ Did.io.connects = 1 /\ world.backend # "up")
        => Did.io.socks_opened = Did.io.socks_closed

\* The stack slot of buffer held zero bytes when launch was entered.
StackWasZero == \A i \in 1..Len(buffer) : buffer[i] # "g"

\* C19: the text parse_http_request is given is the bytes read from the
\* current connection and nothing else: the request it returns is the one
\* in those bytes, or the one in no bytes when the read failed, whatever an
\* earlier connection left in buffer.
C19_ParsedBytesAreThoseRead ==
    (pc = "handle" /\ StackWasZero)
        => request \in { parse_http_request(Take(inbound, MAX_BUFFER_SIZE)),
                         parse_http_request(<<>>) }

\* C20: in the proxy responder the last index written in proxy_request (the
\* terminator behind headers and body), the number of bytes send takes from
\* proxy_request, and the index of the terminator written behind the
\* received bytes in proxy_response all lie within the MAX_BUFFER_SIZE-byte
\* buffers.
C20_ProxyBuffersInBounds ==
    (Called /\ ExactRead)
        => /\ Did.io.req_top <= MAX_BUFFER_SIZE - 1
           /\ Did.io.send_len <= MAX_BUFFER_SIZE
           /\ Did.io.resp_top <= MAX_BUFFER_SIZE - 1

====
